---- MODULE Spec2Model ----
(***************************************************************************)
(* State-machine model of projetoGLFW/main.cpp: a GLFW window, one VAO,    *)
(* one vertex buffer, one element buffer, a two-stage shader program and   *)
(* the render loop that draws the quad until the window is asked to close. *)
(*                                                                         *)
(* Units: colours are in tenths (0.2f is 2), vertex coordinates in halves  *)
(* (0.5f is 1), buffer sizes, strides and offsets in bytes.                *)
(* GL object names are the positions of the objects in objs, in creation   *)
(* order; 0 is GL's "no object".                                           *)
(***************************************************************************)
EXTENDS Integers, Sequences, FiniteSets, TLC

\* ------------------------------------------------------------- bounds
\* Frames the model lets the render loop draw.
MaxFrames == 3
\* Framebuffer widths and heights a resize notification may carry: 0..MaxDim.
MaxDim == 2

\* ------------------------------------------------- program constants
WIDTH == 800
HEIGHT == 600
SizeofFloat == 4
SizeofUInt == 4
DrawCount == 6

\* float triangleVertices[] (in halves), 4 vertices of 3 floats
triangleVertices == << 1,  1, 0,
                       1, -1, 0,
                      -1, -1, 0,
                      -1,  1, 0 >>

\* Variant of indices: the last index names a fifth vertex.
indices_OutOfRange == << 0, 1, 3,
                         1, 2, 4 >>

\* unsigned int indices[]
indices == << 0, 1, 3,
              1, 2, 3 >>

\* glClearColor(0.2f, 0.3f, 0.3f, 1.0f), in tenths
ClearColorArgs == << 2, 3, 3, 10 >>

\* The text both shader checks write, split at "::".
ShaderErrorText == << "ERROR", "SHADER", "VERTEX", "COMPILATION_FAILED" >>

\* The text the program check writes.
ProgramErrorText == << "(Shader PROGRAM Error.)" >> \o ShaderErrorText

WindowErrorText == << "Failed to create GLFW window" >>

VARIABLES
    pc,              \* position of main
    window,          \* "none" | "ok" | "null": result of glfwCreateWindow
    windowCalls,     \* number of glfwCreateWindow calls
    callbackSet,     \* frameBufferSize_callback is registered
    closeFlag,       \* the window's should-close flag
    keyEscape,       \* last reported state of the Escape key is GLFW_PRESS
    terminated,      \* glfwTerminate has been called
    exitCode,        \* << >> while running, << code >> once main returned
    log,             \* lines written to std::cout
    objs,            \* GL objects in creation order
    VAO, VBO, EBO, vertexShader, fragmentShader, shaderProgram,
    boundVAO,        \* GL vertex-array binding
    arrayBuffer,     \* GL_ARRAY_BUFFER binding
    activeProgram,   \* GL current program
    viewport,        \* GL viewport << x, y, w, h >>
    clearColor,      \* GL clear colour
    useAfterDelete,  \* some GL call named an object that was not alive
    frames,          \* glDrawElements calls so far
    frameCalls,      \* calls made by the current loop iteration, in order
    lastSize,        \* << >> or the size of the latest resize notification
    lastDraw         \* << >> or what the latest glDrawElements consumed

hostVars == << window, windowCalls, callbackSet, closeFlag, keyEscape,
               terminated, exitCode >>
nameVars == << VAO, VBO, EBO, vertexShader, fragmentShader, shaderProgram >>
glVars   == << objs, boundVAO, arrayBuffer, activeProgram, viewport,
               clearColor, useAfterDelete >>
loopVars == << frames, frameCalls, lastSize, lastDraw >>
vars == << pc, hostVars, nameVars, glVars, loopVars, log >>

\* ------------------------------------------------------------ helpers
Range(s) == { s[i] : i \in 1..Len(s) }

Last(s) == s[Len(s)]

NoAttrib == [ enabled |-> FALSE, buffer |-> 0, size |-> 0, type |-> "none",
              normalized |-> FALSE, stride |-> 0, offset |-> 0 ]

\* A freshly generated GL object of the given kind.
NewObj(kind) ==
    [ kind |-> kind, alive |-> TRUE, dels |-> 0,
      data |-> << >>, usage |-> "none", uploads |-> 0,   \* buffers
      status |-> "unset", attached |-> {},               \* shaders, programs
      elem |-> 0, attrib0 |-> NoAttrib ]                 \* vertex arrays

Alive(o, h) == h \in 1..Len(o) /\ o[h].alive

\* glBufferData(target, size, src, usage) on buffer h: the first size bytes
\* of src, held as 4-byte elements.
BufferData(o, h, size, src, usage) ==
    IF Alive(o, h)
    THEN [ o EXCEPT ![h].data = SubSeq(src, 1, size \div SizeofUInt),
                    ![h].usage = usage,
                    ![h].uploads = @ + 1 ]
    ELSE o

\* glDelete*(h): the name is released; a second call on it is counted too.
DeleteObj(o, h) ==
    IF h \in 1..Len(o)
    THEN [ o EXCEPT ![h].alive = FALSE, ![h].dels = @ + 1 ]
    ELSE o

Sizes == (0..MaxDim) \X (0..MaxDim)

\* The resize notifications one glfwPollEvents call may deliver.
ResizeEvents ==
    { << >> } \cup { << s >> : s \in Sizes } \cup { << s, t >> : s, t \in Sizes }

Init ==
    /\ pc = "start"
    /\ window = "none"
    /\ windowCalls = 0
    /\ callbackSet = FALSE
    /\ closeFlag = FALSE
    /\ keyEscape = FALSE
    /\ terminated = FALSE
    /\ exitCode = << >>
    /\ log = << >>
    /\ objs = << >>
    /\ VAO = 0 /\ VBO = 0 /\ EBO = 0
    /\ vertexShader = 0 /\ fragmentShader = 0 /\ shaderProgram = 0
    /\ boundVAO = 0
    /\ arrayBuffer = 0
    /\ activeProgram = 0
    /\ viewport = << 0, 0, 0, 0 >>
    /\ clearColor = << 0, 0, 0, 0 >>
    /\ useAfterDelete = FALSE
    /\ frames = 0
    /\ frameCalls = << >>
    /\ lastSize = << >>
    /\ lastDraw = << >>

\* ------------------------------------------------- startup (main 84-101)
\* glfwInit, the window hints and glfwCreateWindow, which may return NULL.
CreateWindow ==
    /\ pc = "start"
    /\ \E ok \in BOOLEAN : window' = IF ok THEN "ok" ELSE "null"
    /\ windowCalls' = windowCalls + 1
    /\ pc' = "checkWindow"
    /\ UNCHANGED << callbackSet, closeFlag, keyEscape, terminated, exitCode,
                    nameVars, glVars, loopVars, log >>

\* Variant of CheckWindow: the failure path returns 0.
CheckWindow_ReturnsZero ==
    /\ pc = "checkWindow"
    /\ IF window = "null"
       THEN /\ log' = Append(log, [ text |-> WindowErrorText, about |-> 0 ])
            /\ terminated' = TRUE
            /\ exitCode' = << 0 >>
            /\ pc' = "exited"
       ELSE /\ pc' = "setCallback"
            /\ UNCHANGED << log, terminated, exitCode >>
    /\ UNCHANGED << window, windowCalls, callbackSet, closeFlag, keyEscape,
                    nameVars, glVars, loopVars >>

\* if (window == NULL) { log; glfwTerminate(); return -1; }
CheckWindow ==
    /\ pc = "checkWindow"
    /\ IF window = "null"
       THEN /\ log' = Append(log, [ text |-> WindowErrorText, about |-> 0 ])
            /\ terminated' = TRUE
            /\ exitCode' = << -1 >>
            /\ pc' = "exited"
       ELSE /\ pc' = "setCallback"
            /\ UNCHANGED << log, terminated, exitCode >>
    /\ UNCHANGED << window, windowCalls, callbackSet, closeFlag, keyEscape,
                    nameVars, glVars, loopVars >>

\* glfwSetFramebufferSizeCallback, glfwMakeContextCurrent, gladLoadGL.
\* Attaching the context to the window sets the viewport to the window.
SetCallback ==
    /\ pc = "setCallback"
    /\ callbackSet' = TRUE
    /\ viewport' = << 0, 0, WIDTH, HEIGHT >>
    /\ pc' = "genVAO"
    /\ UNCHANGED << window, windowCalls, closeFlag, keyEscape, terminated,
                    exitCode, nameVars, objs, boundVAO, arrayBuffer,
                    activeProgram, clearColor, useAfterDelete, loopVars, log >>

\* ------------------------------------------ geometry upload (main 112-135)
\* glGenVertexArrays(1, &VAO); glBindVertexArray(VAO);
GenVAO ==
    /\ pc = "genVAO"
    /\ objs' = Append(objs, NewObj("vao"))
    /\ VAO' = Len(objs) + 1
    /\ boundVAO' = VAO'
    /\ pc' = "genVBO"
    /\ UNCHANGED << hostVars, VBO, EBO, vertexShader, fragmentShader,
                    shaderProgram, arrayBuffer, activeProgram, viewport,
                    clearColor, useAfterDelete, loopVars, log >>

\* glGenBuffers(1, &VBO); glBindBuffer(GL_ARRAY_BUFFER, VBO);
\* glBufferData(GL_ARRAY_BUFFER, sizeof(triangleVertices), ...)
GenVBO ==
    /\ pc = "genVBO"
    /\ VBO' = Len(objs) + 1
    /\ arrayBuffer' = VBO'
    /\ objs' = BufferData(Append(objs, NewObj("buffer")), VBO',
                          Len(triangleVertices) * SizeofFloat,
                          triangleVertices, "STATIC_DRAW")
    /\ pc' = "genEBO"
    /\ UNCHANGED << hostVars, VAO, EBO, vertexShader, fragmentShader,
                    shaderProgram, boundVAO, activeProgram, viewport,
                    clearColor, useAfterDelete, loopVars, log >>

\* glGenBuffers(1, &EBO); glBindBuffer(GL_ELEMENT_ARRAY_BUFFER, EBO);
\* glBufferData(GL_ELEMENT_ARRAY_BUFFER, sizeof(indices), ...)
\* The element-buffer binding is part of the bound vertex array's state.
GenEBO ==
    /\ pc = "genEBO"
    /\ EBO' = Len(objs) + 1
    /\ LET o1 == Append(objs, NewObj("buffer"))
           o2 == IF Alive(o1, boundVAO)
                 THEN [ o1 EXCEPT ![boundVAO].elem = EBO' ]
                 ELSE o1
           target == IF Alive(o2, boundVAO) THEN o2[boundVAO].elem ELSE 0
       IN  objs' = BufferData(o2, target, Len(indices) * SizeofUInt,
                              indices, "STATIC_DRAW")
    /\ useAfterDelete' = (useAfterDelete \/ ~Alive(objs, boundVAO))
    /\ pc' = "createShaders"
    /\ UNCHANGED << hostVars, VAO, VBO, vertexShader, fragmentShader,
                    shaderProgram, boundVAO, arrayBuffer, activeProgram,
                    viewport, clearColor, loopVars, log >>

\* --------------------------------------- shader program (main 143-160)
\* glCreateShader(GL_VERTEX_SHADER); glCreateShader(GL_FRAGMENT_SHADER);
CreateShaders ==
    /\ pc = "createShaders"
    /\ objs' = objs \o << NewObj("vertex shader"), NewObj("fragment shader") >>
    /\ vertexShader' = Len(objs) + 1
    /\ fragmentShader' = Len(objs) + 2
    /\ pc' = "createVertexShader"
    /\ UNCHANGED << hostVars, VAO, VBO, EBO, shaderProgram, boundVAO,
                    arrayBuffer, activeProgram, viewport, clearColor,
                    useAfterDelete, loopVars, log >>

\* glShaderSource + glCompileShader on shader: the driver's verdict is ok.
CompileShader(o, shader, ok) ==
    IF Alive(o, shader)
    THEN [ o EXCEPT ![shader].status = IF ok THEN "ok" ELSE "failed" ]
    ELSE o

\* Variant of checkIfShaderRunSucessfully: the status test is inverted.
checkIfShaderRunSucessfully_Inverted(o, shader) ==
    IF Alive(o, shader) /\ o[shader].status = "ok"
    THEN << [ text |-> ShaderErrorText, about |-> shader ] >>
    ELSE << >>

\* The lines checkIfShaderRunSucessfully writes for shader: none when
\* GL_COMPILE_STATUS is set, else the fixed text followed by the driver's
\* info log of that shader (about).
checkIfShaderRunSucessfully(o, shader) ==
    IF Alive(o, shader) /\ o[shader].status # "ok"
    THEN << [ text |-> ShaderErrorText, about |-> shader ] >>
    ELSE << >>

\* The lines checkIfProgramWasCreatedSucessfully writes for the program.
checkIfProgramWasCreatedSucessfully(o, program) ==
    IF Alive(o, program) /\ o[program].status # "ok"
    THEN << [ text |-> ProgramErrorText, about |-> program ] >>
    ELSE << >>

\* createVertexShader(vertexShader)
createVertexShader ==
    /\ pc = "createVertexShader"
    /\ \E ok \in BOOLEAN : objs' = CompileShader(objs, vertexShader, ok)
    /\ log' = log \o checkIfShaderRunSucessfully(objs', vertexShader)
    /\ useAfterDelete' = (useAfterDelete \/ ~Alive(objs, vertexShader))
    /\ pc' = "createFragmentShader"
    /\ UNCHANGED << hostVars, nameVars, boundVAO, arrayBuffer, activeProgram,
                    viewport, clearColor, loopVars >>

\* createFragmentShader(fragmentShader)
createFragmentShader ==
    /\ pc = "createFragmentShader"
    /\ \E ok \in BOOLEAN : objs' = CompileShader(objs, fragmentShader, ok)
    /\ log' = log \o checkIfShaderRunSucessfully(objs', fragmentShader)
    /\ useAfterDelete' = (useAfterDelete \/ ~Alive(objs, fragmentShader))
    /\ pc' = "createProgram"
    /\ UNCHANGED << hostVars, nameVars, boundVAO, arrayBuffer, activeProgram,
                    viewport, clearColor, loopVars >>

\* glCreateProgram; glAttachShader x 2; glLinkProgram.
\* Linking fails when an attached stage did not compile, and may fail for
\* reasons of the driver's own when both did.
CreateProgram ==
    /\ pc = "createProgram"
    /\ shaderProgram' = Len(objs) + 1
    /\ \E ok \in BOOLEAN :
         LET stages == { vertexShader, fragmentShader }
             linked == ok /\ \A s \in stages :
                                Alive(objs, s) /\ objs[s].status = "ok"
         IN  objs' = Append(objs,
                       [ NewObj("program") EXCEPT
                           !.attached = stages,
                           !.status = IF linked THEN "ok" ELSE "failed" ])
    /\ useAfterDelete' = (useAfterDelete \/ ~Alive(objs, vertexShader)
                                         \/ ~Alive(objs, fragmentShader))
    /\ pc' = "checkProgram"
    /\ UNCHANGED << hostVars, VAO, VBO, EBO, vertexShader, fragmentShader,
                    boundVAO, arrayBuffer, activeProgram, viewport,
                    clearColor, loopVars, log >>

\* checkIfProgramWasCreatedSucessfully(shaderProgram)
CheckProgram ==
    /\ pc = "checkProgram"
    /\ log' = log \o checkIfProgramWasCreatedSucessfully(objs, shaderProgram)
    /\ useAfterDelete' = (useAfterDelete \/ ~Alive(objs, shaderProgram))
    /\ pc' = "deleteShaders"
    /\ UNCHANGED << hostVars, nameVars, objs, boundVAO, arrayBuffer,
                    activeProgram, viewport, clearColor, loopVars >>

\* glDeleteShader(vertexShader); glDeleteShader(fragmentShader);
DeleteShaders ==
    /\ pc = "deleteShaders"
    /\ objs' = DeleteObj(DeleteObj(objs, vertexShader), fragmentShader)
    /\ pc' = "attribSetup"
    /\ UNCHANGED << hostVars, nameVars, boundVAO, arrayBuffer, activeProgram,
                    viewport, clearColor, useAfterDelete, loopVars, log >>

\* glGetAttribLocation(shaderProgram, "aPos") (result unused);
\* glVertexAttribPointer(0, 3, GL_FLOAT, GL_FALSE, 3 * sizeof(float), 0);
\* glEnableVertexAttribArray(0);
\* Both record into the bound vertex array; the pointer captures the
\* buffer bound to GL_ARRAY_BUFFER at the call.
AttribSetup ==
    /\ pc = "attribSetup"
    /\ objs' = IF Alive(objs, boundVAO)
               THEN [ objs EXCEPT ![boundVAO].attrib0 =
                        [ enabled |-> TRUE, buffer |-> arrayBuffer,
                          size |-> 3, type |-> "FLOAT", normalized |-> FALSE,
                          stride |-> 3 * SizeofFloat, offset |-> 0 ] ]
               ELSE objs
    /\ useAfterDelete' = (useAfterDelete \/ ~Alive(objs, shaderProgram)
                                         \/ ~Alive(objs, boundVAO)
                                         \/ ~Alive(objs, arrayBuffer))
    /\ pc' = "loopCheck"
    /\ UNCHANGED << hostVars, nameVars, boundVAO, arrayBuffer, activeProgram,
                    viewport, clearColor, loopVars, log >>

\* ------------------------------------------- render loop (main 174-190)
Call(op, args) == [ op |-> op, args |-> args ]

\* while (!glfwWindowShouldClose(window)): the condition holds.
LoopEnter ==
    /\ pc = "loopCheck"
    /\ ~closeFlag
    /\ frames < MaxFrames
    /\ frameCalls' = << >>
    /\ pc' = "processInput"
    /\ UNCHANGED << hostVars, nameVars, glVars, frames, lastSize, lastDraw,
                    log >>

\* while (!glfwWindowShouldClose(window)): the condition fails.
LoopExit ==
    /\ pc = "loopCheck"
    /\ closeFlag
    /\ pc' = "deleteVAO"
    /\ UNCHANGED << hostVars, nameVars, glVars, loopVars, log >>

\* Variant of processInput: the key is read but the flag is not set.
processInput_NoClose ==
    /\ pc = "processInput"
    /\ frameCalls' = Append(frameCalls, Call("processInput", << >>))
    /\ pc' = "clear"
    /\ UNCHANGED << hostVars, nameVars, glVars, frames, lastSize, lastDraw,
                    log >>

\* if (glfwGetKey(window, GLFW_KEY_ESCAPE) == GLFW_PRESS)
\*     glfwSetWindowShouldClose(window, true);
processInput ==
    /\ pc = "processInput"
    /\ closeFlag' = IF keyEscape THEN TRUE ELSE closeFlag
    /\ frameCalls' = Append(frameCalls, Call("processInput", << >>))
    /\ pc' = "clear"
    /\ UNCHANGED << window, windowCalls, callbackSet, keyEscape, terminated,
                    exitCode, nameVars, glVars, frames, lastSize, lastDraw,
                    log >>

\* glClearColor(0.2f, 0.3f, 0.3f, 1.0f); glClear(GL_COLOR_BUFFER_BIT);
ClearScreen ==
    /\ pc = "clear"
    /\ clearColor' = ClearColorArgs
    /\ frameCalls' = frameCalls \o
                       << Call("glClearColor", ClearColorArgs),
                          Call("glClear", << "GL_COLOR_BUFFER_BIT" >>) >>
    /\ pc' = "useProgram"
    /\ UNCHANGED << hostVars, nameVars, objs, boundVAO, arrayBuffer,
                    activeProgram, viewport, useAfterDelete, frames,
                    lastSize, lastDraw, log >>

\* glUseProgram(shaderProgram): GL installs a program only when its last
\* link succeeded; otherwise the current program is left as it was.
UseProgram ==
    /\ pc = "useProgram"
    /\ activeProgram' = IF Alive(objs, shaderProgram)
                           /\ objs[shaderProgram].status = "ok"
                        THEN shaderProgram
                        ELSE activeProgram
    /\ useAfterDelete' = (useAfterDelete \/ ~Alive(objs, shaderProgram))
    /\ frameCalls' = Append(frameCalls, Call("glUseProgram", << shaderProgram >>))
    /\ pc' = "bindVAO"
    /\ UNCHANGED << hostVars, nameVars, objs, boundVAO, arrayBuffer, viewport,
                    clearColor, frames, lastSize, lastDraw, log >>

\* Variant of BindVAO: the bind is left out of the loop body.
BindVAO_Skipped ==
    /\ pc = "bindVAO"
    /\ pc' = "draw"
    /\ UNCHANGED << hostVars, nameVars, glVars, loopVars, log >>

\* Variant of BindVAO: a new vertex array is generated for every frame.
BindVAO_Regen ==
    /\ pc = "bindVAO"
    /\ objs' = Append(objs, [ NewObj("vao") EXCEPT
                                !.elem = objs[VAO].elem,
                                !.attrib0 = objs[VAO].attrib0 ])
    /\ VAO' = Len(objs) + 1
    /\ boundVAO' = VAO'
    /\ frameCalls' = Append(frameCalls, Call("glBindVertexArray", << VAO' >>))
    /\ pc' = "draw"
    /\ UNCHANGED << hostVars, VBO, EBO, vertexShader, fragmentShader,
                    shaderProgram, arrayBuffer, activeProgram, viewport,
                    clearColor, useAfterDelete, frames, lastSize, lastDraw,
                    log >>

\* glBindVertexArray(VAO)
BindVAO ==
    /\ pc = "bindVAO"
    /\ boundVAO' = IF Alive(objs, VAO) THEN VAO ELSE boundVAO
    /\ useAfterDelete' = (useAfterDelete \/ ~Alive(objs, VAO))
    /\ frameCalls' = Append(frameCalls, Call("glBindVertexArray", << VAO >>))
    /\ pc' = "draw"
    /\ UNCHANGED << hostVars, nameVars, objs, arrayBuffer, activeProgram,
                    viewport, clearColor, frames, lastSize, lastDraw, log >>

\* The index triples glDrawElements(GL_TRIANGLES, count, GL_UNSIGNED_INT, 0)
\* reads from the element buffer of vertex array vao; -1 is a read outside
\* the buffer's data.
Triangles(o, vao, count) ==
    LET e == IF Alive(o, vao) THEN o[vao].elem ELSE 0
        idx(i) == IF Alive(o, e) /\ i <= Len(o[e].data)
                  THEN o[e].data[i] ELSE -1
    IN  [ t \in 1..(count \div 3) |->
            << idx(3 * t - 2), idx(3 * t - 1), idx(3 * t) >> ]

\* The number of whole vertices attribute 0 of vertex array vao can fetch.
VertexCount(o, vao) ==
    LET a == IF Alive(o, vao) THEN o[vao].attrib0 ELSE NoAttrib
    IN  IF a.enabled /\ Alive(o, a.buffer) /\ a.stride > 0
        THEN (Len(o[a.buffer].data) * SizeofFloat) \div a.stride
        ELSE 0

\* The number of indices held by the element buffer of vertex array vao.
ElementCount(o, vao) ==
    IF Alive(o, vao) /\ Alive(o, o[vao].elem)
    THEN Len(o[o[vao].elem].data)
    ELSE 0

\* glDrawElements(GL_TRIANGLES, 6, GL_UNSIGNED_INT, 0)
DrawElements ==
    /\ pc = "draw"
    /\ lastDraw' = << [ vao |-> boundVAO, program |-> activeProgram,
                        viewport |-> viewport, count |-> DrawCount,
                        triangles |-> Triangles(objs, boundVAO, DrawCount),
                        vertices |-> VertexCount(objs, boundVAO),
                        indexed |-> ElementCount(objs, boundVAO) ] >>
    /\ frames' = frames + 1
    /\ useAfterDelete' = (useAfterDelete \/ ~Alive(objs, boundVAO))
    /\ frameCalls' = Append(frameCalls,
                       Call("glDrawElements",
                            << "GL_TRIANGLES", DrawCount, "GL_UNSIGNED_INT", 0 >>))
    /\ pc' = "unbindVAO"
    /\ UNCHANGED << hostVars, nameVars, objs, boundVAO, arrayBuffer,
                    activeProgram, viewport, clearColor, lastSize, log >>

\* Variant of UnbindVAO: the vertex array is left bound.
UnbindVAO_Skipped ==
    /\ pc = "unbindVAO"
    /\ pc' = "swap"
    /\ UNCHANGED << hostVars, nameVars, glVars, loopVars, log >>

\* glBindVertexArray(0)
UnbindVAO ==
    /\ pc = "unbindVAO"
    /\ boundVAO' = 0
    /\ frameCalls' = Append(frameCalls, Call("glBindVertexArray", << 0 >>))
    /\ pc' = "swap"
    /\ UNCHANGED << hostVars, nameVars, objs, arrayBuffer, activeProgram,
                    viewport, clearColor, useAfterDelete, frames, lastSize,
                    lastDraw, log >>

\* glfwSwapBuffers(window)
SwapBuffers ==
    /\ pc = "swap"
    /\ frameCalls' = Append(frameCalls, Call("glfwSwapBuffers", << >>))
    /\ pc' = "poll"
    /\ UNCHANGED << hostVars, nameVars, glVars, frames, lastSize, lastDraw,
                    log >>

\* Variant of frameBufferSize_callback: width and height are exchanged.
frameBufferSize_callback_Swapped(width, height) == << 0, 0, height, width >>

\* void frameBufferSize_callback(window, width, height): the new viewport.
frameBufferSize_callback(width, height) == << 0, 0, width, height >>

\* The viewport after the notifications rs have been delivered in order to
\* the registered callback.
Deliver(vp, rs) ==
    IF rs = << >> \/ ~callbackSet
    THEN vp
    ELSE frameBufferSize_callback(Last(rs)[1], Last(rs)[2])

\* glfwPollEvents(): the host reports the Escape key's state, may record a
\* close request of the user, and delivers the pending resize notifications.
PollEvents ==
    /\ pc = "poll"
    /\ \E esc \in BOOLEAN, close \in BOOLEAN, rs \in ResizeEvents :
         /\ keyEscape' = esc
         /\ closeFlag' = (closeFlag \/ close)
         /\ viewport' = Deliver(viewport, rs)
         /\ lastSize' = IF rs = << >> THEN lastSize ELSE Last(rs)
    /\ frameCalls' = Append(frameCalls, Call("glfwPollEvents", << >>))
    /\ pc' = "loopCheck"
    /\ UNCHANGED << window, windowCalls, callbackSet, terminated, exitCode,
                    nameVars, objs, boundVAO, arrayBuffer, activeProgram,
                    clearColor, useAfterDelete, frames, lastDraw, log >>

\* ------------------------------------------------ shutdown (main 192-197)
\* glDeleteVertexArrays(1, &VAO): a bound vertex array is unbound first.
DeleteVAO ==
    /\ pc = "deleteVAO"
    /\ objs' = DeleteObj(objs, VAO)
    /\ boundVAO' = IF boundVAO = VAO THEN 0 ELSE boundVAO
    /\ pc' = "deleteVBO"
    /\ UNCHANGED << hostVars, nameVars, arrayBuffer, activeProgram, viewport,
                    clearColor, useAfterDelete, loopVars, log >>

\* glDeleteBuffers(1, &VBO): a bound buffer is unbound first.
DeleteVBO ==
    /\ pc = "deleteVBO"
    /\ objs' = DeleteObj(objs, VBO)
    /\ arrayBuffer' = IF arrayBuffer = VBO THEN 0 ELSE arrayBuffer
    /\ pc' = "deleteEBO"
    /\ UNCHANGED << hostVars, nameVars, boundVAO, activeProgram, viewport,
                    clearColor, useAfterDelete, loopVars, log >>

\* Variant of DeleteEBO: the vertex buffer is named a second time.
DeleteEBO_DeletesVBO ==
    /\ pc = "deleteEBO"
    /\ objs' = DeleteObj(objs, VBO)
    /\ arrayBuffer' = IF arrayBuffer = VBO THEN 0 ELSE arrayBuffer
    /\ pc' = "deleteProgram"
    /\ UNCHANGED << hostVars, nameVars, boundVAO, activeProgram, viewport,
                    clearColor, useAfterDelete, loopVars, log >>

\* glDeleteBuffers(1, &EBO)
DeleteEBO ==
    /\ pc = "deleteEBO"
    /\ objs' = DeleteObj(objs, EBO)
    /\ arrayBuffer' = IF arrayBuffer = EBO THEN 0 ELSE arrayBuffer
    /\ pc' = "deleteProgram"
    /\ UNCHANGED << hostVars, nameVars, boundVAO, activeProgram, viewport,
                    clearColor, useAfterDelete, loopVars, log >>

\* glDeleteProgram(shaderProgram)
DeleteProgram ==
    /\ pc = "deleteProgram"
    /\ objs' = DeleteObj(objs, shaderProgram)
    /\ pc' = "terminate"
    /\ UNCHANGED << hostVars, nameVars, boundVAO, arrayBuffer, activeProgram,
                    viewport, clearColor, useAfterDelete, loopVars, log >>

\* glfwTerminate(); return 0;
Terminate ==
    /\ pc = "terminate"
    /\ terminated' = TRUE
    /\ exitCode' = << 0 >>
    /\ pc' = "exited"
    /\ UNCHANGED << window, windowCalls, callbackSet, closeFlag, keyEscape,
                    nameVars, glVars, loopVars, log >>

Next ==
    \/ CreateWindow
    \/ CheckWindow
    \/ SetCallback
    \/ GenVAO
    \/ GenVBO
    \/ GenEBO
    \/ CreateShaders
    \/ createVertexShader
    \/ createFragmentShader
    \/ CreateProgram
    \/ CheckProgram
    \/ DeleteShaders
    \/ AttribSetup
    \/ LoopEnter
    \/ LoopExit
    \/ processInput
    \/ ClearScreen
    \/ UseProgram
    \/ BindVAO
    \/ DrawElements
    \/ UnbindVAO
    \/ SwapBuffers
    \/ PollEvents
    \/ DeleteVAO
    \/ DeleteVBO
    \/ DeleteEBO
    \/ DeleteProgram
    \/ Terminate

Spec == Init /\ [][Next]_vars

\* ===================================================== properties
SetupPcs == { "start", "checkWindow", "setCallback", "genVAO", "genVBO",
              "genEBO", "createShaders", "createVertexShader",
              "createFragmentShader", "createProgram", "checkProgram",
              "deleteShaders", "attribSetup" }

LoopPcs == { "loopCheck", "processInput", "clear", "useProgram", "bindVAO",
             "draw", "unbindVAO", "swap", "poll" }

ShutdownPcs == { "deleteVAO", "deleteVBO", "deleteEBO", "deleteProgram",
                 "terminate" }

LiveObjs == { h \in 1..Len(objs) : objs[h].alive }

\* The calls of one whole loop iteration, in order.
IterationCalls ==
    << Call("processInput", << >>),
       Call("glClearColor", << 2, 3, 3, 10 >>),
       Call("glClear", << "GL_COLOR_BUFFER_BIT" >>),
       Call("glUseProgram", << shaderProgram >>),
       Call("glBindVertexArray", << VAO >>),
       Call("glDrawElements", << "GL_TRIANGLES", 6, "GL_UNSIGNED_INT", 0 >>),
       Call("glBindVertexArray", << 0 >>),
       Call("glfwSwapBuffers", << >>),
       Call("glfwPollEvents", << >>) >>

\* How many calls of the iteration precede each position of the loop body.
CallsBefore ==
    [ p \in LoopPcs \ { "loopCheck" } |->
        CASE p = "processInput" -> 0
          [] p = "clear"        -> 1
          [] p = "useProgram"   -> 3
          [] p = "bindVAO"      -> 4
          [] p = "draw"         -> 5
          [] p = "unbindVAO"    -> 6
          [] p = "swap"         -> 7
          [] p = "poll"         -> 8 ]

\* C1: every loop iteration makes exactly the calls clear colour, clear,
\* use program, bind VAO, one indexed draw of 6 unsigned-int indices as
\* triangles, bind VAO 0, and only then swap and poll: at each position of
\* the body the calls made so far are the matching prefix of that sequence,
\* a completed iteration made all of it once, and from the unbind until the
\* next iteration the vertex-array binding is 0.
C1_FrameSequence ==
    /\ pc \in LoopPcs \ { "loopCheck" } =>
         frameCalls = SubSeq(IterationCalls, 1, CallsBefore[pc])
    /\ pc = "loopCheck" /\ frames > 0 =>
         frameCalls = IterationCalls
    /\ pc \in { "swap", "poll" } \/ (pc = "loopCheck" /\ frames > 0) =>
         /\ boundVAO = 0
         /\ clearColor = << 2, 3, 3, 10 >>
         /\ lastDraw # << >> /\ lastDraw[1].count = 6

C1_Witness ==
    pc = "loopCheck" /\ frames = 2 /\ frameCalls = IterationCalls /\ boundVAO = 0

C3_FourCreationCalls ==
    frames > 0 => Len(objs) = 4

\* C3 amended: the run makes exactly 6 handle-creation calls (VAO, vertex
\* buffer, index buffer, two stage objects, program), all during setup; the
\* loop and the shutdown add none, each buffer is uploaded once and keeps
\* its size, and throughout the loop exactly one VAO, one vertex buffer, one
\* index buffer and one program are alive.
C3_CreationCallsFixed ==
    /\ pc \in LoopPcs \cup ShutdownPcs \/ (pc = "exited" /\ window = "ok") =>
         /\ Len(objs) = 6
         /\ [ h \in 1..6 |-> objs[h].kind ] =
              << "vao", "buffer", "buffer", "vertex shader",
                 "fragment shader", "program" >>
         /\ \A h \in 1..6 :
              objs[h].uploads = IF objs[h].kind = "buffer" THEN 1 ELSE 0
         /\ Len(objs[VBO].data) = 12 /\ Len(objs[EBO].data) = 6
    /\ pc \in LoopPcs =>
         /\ LiveObjs = { VAO, VBO, EBO, shaderProgram }
         /\ Cardinality(LiveObjs) = 4

C3_Witness ==
    pc = "loopCheck" /\ frames = MaxFrames /\ Len(objs) = 6

\* C4 as stated: a line logged for a failed fragment stage carries the
\* fragment identifier and not the vertex identifier.
C4_FragmentIdentified ==
    \A i \in 1..Len(log) :
      fragmentShader # 0 /\ log[i].about = fragmentShader =>
        /\ "FRAGMENT" \in Range(log[i].text)
        /\ "VERTEX" \notin Range(log[i].text)

\* The steps of the shader build that failed, in the order they ran.
FailedSteps ==
    SelectSeq(<< vertexShader, fragmentShader, shaderProgram >>,
              LAMBDA h : objs[h].status = "failed")

\* C5: whatever the outcomes of the two compiles and the link, once setup
\* is over the log holds one line for each step that failed and none for a
\* step that succeeded, the process has not ended, both stages are attached
\* to the program and the link was run, both stage objects are released,
\* and the loop passes the program to glUseProgram whatever its link status.
C5_ReportedNotFatal ==
    pc \in LoopPcs =>
      /\ exitCode = << >> /\ ~terminated
      /\ [ i \in 1..Len(log) |-> log[i].about ] = FailedSteps
      /\ objs[shaderProgram].attached = { vertexShader, fragmentShader }
      /\ objs[shaderProgram].status \in { "ok", "failed" }
      /\ \A s \in { vertexShader, fragmentShader } :
           /\ objs[s].status \in { "ok", "failed" }
           /\ ~objs[s].alive /\ objs[s].dels = 1
      /\ pc = "bindVAO" =>
           Last(frameCalls) = Call("glUseProgram", << shaderProgram >>)

C5_Witness ==
    /\ pc = "bindVAO"
    /\ objs[vertexShader].status = "failed"
    /\ objs[fragmentShader].status = "ok"
    /\ objs[shaderProgram].status = "failed"
    /\ Len(log) = 2

\* C6: the close flag is never cleared; processInput sets it when Escape
\* is pressed, so no later position of that iteration has Escape pressed
\* and the flag clear; a loop check that finds the flag set leaves the
\* loop; the loop is left only with the flag set; and once it is left no
\* frame is drawn and the loop is not entered again.
C6_EscapeCloses ==
    /\ [](pc \in LoopPcs \ { "loopCheck", "processInput" } /\ keyEscape
            => closeFlag)
    /\ [][ /\ closeFlag => closeFlag'
           /\ pc = "processInput" /\ keyEscape => closeFlag'
           /\ pc = "loopCheck" /\ closeFlag => pc' = "deleteVAO"
           /\ pc = "loopCheck" /\ pc' \notin LoopPcs => closeFlag
           /\ pc \in ShutdownPcs \cup { "exited" } =>
                frames' = frames /\ pc' \notin LoopPcs ]_vars

C6_Witness ==
    pc = "deleteVAO" /\ keyEscape /\ closeFlag /\ frames = 2

\* C7: the callback is registered before the first frame, and at every
\* position of the loop body (the draw among them) the viewport is
\* (0, 0, w, h) for the latest notified (w, h), or the window's initial
\* viewport when no notification has arrived.
C7_ViewportFollowsResize ==
    pc \in LoopPcs \cup ShutdownPcs =>
      /\ callbackSet
      /\ viewport = IF lastSize = << >>
                    THEN << 0, 0, 800, 600 >>
                    ELSE << 0, 0, lastSize[1], lastSize[2] >>

C7_Witness ==
    /\ pc = "draw" /\ frames = 2
    /\ lastSize = << 2, 1 >>
    /\ viewport = << 0, 0, 2, 1 >>

\* C8: no GL call names an object that is not alive, no object is deleted
\* twice, the two stage objects are deleted before the loop starts, the
\* VAO, the two buffers and the program stay alive until the loop has been
\* left, and when glfwTerminate is called after a normal run all 6 objects
\* have been deleted exactly once.
C8_ReleasedExactlyOnce ==
    /\ ~useAfterDelete
    /\ \A h \in 1..Len(objs) :
         /\ objs[h].dels <= 1
         /\ objs[h].alive <=> objs[h].dels = 0
         /\ ~objs[h].alive /\ objs[h].kind \in { "vao", "buffer", "program" }
              => pc \in ShutdownPcs \cup { "exited" }
    /\ pc \in LoopPcs =>
         /\ ~Alive(objs, vertexShader) /\ ~Alive(objs, fragmentShader)
         /\ LiveObjs = { VAO, VBO, EBO, shaderProgram }
    /\ pc = "terminate" \/ (terminated /\ window = "ok") =>
         /\ Len(objs) = 6
         /\ \A h \in 1..6 : ~objs[h].alive /\ objs[h].dels = 1

C8_Witness ==
    /\ pc = "exited" /\ exitCode = << 0 >> /\ frames = 2
    /\ \A h \in 1..Len(objs) : objs[h].dels = 1

\* C9: main returns 0 after a normal close and a non-zero value exactly
\* when window creation failed; in that case the failure line is the whole
\* log, glfwTerminate was called, no GL object was created, no frame was
\* drawn, and glfwCreateWindow was called once.
C9_ExitStatus ==
    /\ windowCalls <= 1
    /\ pc = "exited" =>
         /\ terminated /\ Len(exitCode) = 1
         /\ window = "ok" <=> exitCode = << 0 >>
         /\ window = "null" <=> exitCode[1] # 0
    /\ window = "null" /\ pc # "checkWindow" =>
         /\ pc = "exited"
         /\ log = << [ text |-> WindowErrorText, about |-> 0 ] >>
         /\ objs = << >> /\ frames = 0 /\ windowCalls = 1
    /\ window = "null" => objs = << >> /\ frames = 0

C9_Witness ==
    pc = "exited" /\ window = "null" /\ exitCode = << -1 >> /\ terminated

\* C10: what a draw consumes is a 4-vertex quad through 6 indices: the
\* attribute fetches from 4 vertices, the draw count equals the number of
\* indices uploaded, every index read is one of 0..3, the two triangles
\* have three distinct vertices each, together use all 4 vertices and share
\* exactly vertices 1 and 3.
C10_QuadGeometry ==
    lastDraw # << >> =>
      LET d == lastDraw[1]
          tri(t) == Range(d.triangles[t])
      IN  /\ d.vertices = 4
          /\ d.count = 6 /\ d.indexed = d.count
          /\ Len(d.triangles) = 2
          /\ d.triangles = << << 0, 1, 3 >>, << 1, 2, 3 >> >>
          /\ \A t \in 1..2 : tri(t) \subseteq 0..(d.vertices - 1)
          /\ \A t \in 1..2 : Cardinality(tri(t)) = 3
          /\ tri(1) \cup tri(2) = 0..3
          /\ tri(1) \cap tri(2) = { 1, 3 }

C10_Witness ==
    /\ pc = "unbindVAO" /\ frames = 1
    /\ lastDraw # << >>
    /\ lastDraw[1].triangles = << << 0, 1, 3 >>, << 1, 2, 3 >> >>
    /\ lastDraw[1].vertices = 4

====
